---- MODULE Spec2Model ----
(***************************************************************************)
(* Model of the layered user CRUD example: UserService                     *)
(* (examples/fastapi/services/user_service.py) on top of UserRepository    *)
(* (examples/fastapi/repositories/user_repository.py).                     *)
(*                                                                         *)
(* Identifiers of the source are Korean; TLA+ identifiers are ASCII, so    *)
(* each definition carries the English reading and names the source symbol *)
(* in its comment.                                                         *)
(*                                                                         *)
(* Strings are sequences of one-character strings, so that strip(),        *)
(* lower(), len() and the e-mail regular expression are computed on the    *)
(* characters.  An Optional value is a sequence of length 0 (None) or 1.   *)
(*                                                                         *)
(* `rows` is the content of the users table as the session sees it: the    *)
(* session keeps one object per row (identity map) and flushes pending     *)
(* attribute changes before every statement it executes, so an attribute   *)
(* assignment on a loaded entity is what every later read observes.        *)
(***************************************************************************)
EXTENDS Integers, Sequences, FiniteSets

VARIABLES rows, next_id, op, arg_id, arg_name, arg_email, arg_page,
          arg_size, outcome, calls, ret, before, tasks

vars == <<rows, next_id, op, arg_id, arg_name, arg_email, arg_page,
          arg_size, outcome, calls, ret, before, tasks>>

---------------------------------------------------------------------------
(* Bounds of the model *)

\* ids handed out by the store: creates are possible while next_id <= MaxId
MaxId == 2

\* a name in a request has up to MaxPad blanks before it and after it
MaxPad == 1

\* list requests ask for pages 0..MaxPage
MaxPage == 2

---------------------------------------------------------------------------
(* Program constants *)

\* UserService.최소_이름_길이
min_name_length == 3

\* UserService.최대_이름_길이
max_name_length == 50

\* upper limit of 페이지_크기 in UserService.사용자_목록_조회
max_page_size == 100

---------------------------------------------------------------------------
(* Strings *)

None == <<>>

Some(v) == <<v>>

LowerLetters == <<"a","b","c","d","e","f","g","h","i","j","k","l","m",
                  "n","o","p","q","r","s","t","u","v","w","x","y","z">>

UpperLetters == <<"A","B","C","D","E","F","G","H","I","J","K","L","M",
                  "N","O","P","Q","R","S","T","U","V","W","X","Y","Z">>

Digits == {"0","1","2","3","4","5","6","7","8","9"}

Letters == {LowerLetters[i] : i \in 1..26} \cup {UpperLetters[i] : i \in 1..26}

\* the characters str.strip() removes
Whitespace == {" ", "\t", "\n"}

\* str.lower() on one character
LowerChar(c) ==
    IF \E i \in 1..26 : UpperLetters[i] = c
    THEN LowerLetters[CHOOSE i \in 1..26 : UpperLetters[i] = c]
    ELSE c

\* str.lower()
Lower(s) == [i \in 1..Len(s) |-> LowerChar(s[i])]

\* str.lstrip(): drop the leading whitespace
RECURSIVE lstrip(_)
lstrip(s) ==
    IF s # <<>> /\ Head(s) \in Whitespace THEN lstrip(Tail(s)) ELSE s

\* str.rstrip(): drop the trailing whitespace
RECURSIVE rstrip(_)
rstrip(s) ==
    IF s # <<>> /\ s[Len(s)] \in Whitespace
    THEN rstrip(SubSeq(s, 1, Len(s) - 1))
    ELSE s

\* str.strip(): drop the leading and the trailing whitespace
Strip(s) == rstrip(lstrip(s))

---------------------------------------------------------------------------
(* UserService: private validation methods *)

\* the upper limit compared one character too high
name_length_check_off_by_one(name) ==
    LET name_length == Len(Strip(name))
    IN  IF name_length < min_name_length THEN "name_too_short"
        ELSE IF name_length > max_name_length + 1 THEN "name_too_long"
        ELSE "ok"

\* UserService._이름_길이_검증: "ok", or the ValueError it raises
name_length_check(name) ==
    LET name_length == Len(Strip(name))
    IN  IF name_length < min_name_length THEN "name_too_short"
        ELSE IF name_length > max_name_length THEN "name_too_long"
        ELSE "ok"

\* [a-zA-Z0-9._%+-]
LocalChars == Letters \cup Digits \cup {".", "_", "%", "+", "-"}

\* [a-zA-Z0-9.-]
DomainChars == Letters \cup Digits \cup {".", "-"}

\* re.match(r'^[a-zA-Z0-9._%+-]+@[a-zA-Z0-9.-]+\.[a-zA-Z]{2,}$', email);
\* `$` matches at the end and also just before a final newline
email_pattern_match(email) ==
    \E n \in {Len(email)} \cup
             (IF Len(email) > 0 /\ email[Len(email)] = "\n"
              THEN {Len(email) - 1} ELSE {}) :
      \E i \in 2..n, j \in 2..n :
        /\ email[i] = "@"
        /\ \A k \in 1..(i-1) : email[k] \in LocalChars
        /\ j >= i + 2
        /\ \A k \in (i+1)..(j-1) : email[k] \in DomainChars
        /\ email[j] = "."
        /\ n >= j + 2
        /\ \A k \in (j+1)..n : email[k] \in Letters

\* UserService._이메일_형식_검증: "ok", or the ValueError it raises
email_format_check(email) ==
    IF email_pattern_match(email) THEN "ok" ELSE "bad_email"

---------------------------------------------------------------------------
(* UserRepository: reads *)

\* Result.scalar_one_or_none(): None for no row, the row for one row,
\* MultipleResultsFound for more than one
scalar_one_or_none(matching) ==
    IF matching = {} THEN [kind |-> "none", row |-> None]
    ELSE IF Cardinality(matching) = 1
         THEN [kind |-> "one", row |-> Some(CHOOSE r \in matching : TRUE)]
         ELSE [kind |-> "multiple_results", row |-> None]

\* UserRepository.조회
repo_get(table, user_id) ==
    scalar_one_or_none({r \in table : r.id = user_id})

\* UserRepository.이름으로_조회
repo_get_by_name(table, name) ==
    scalar_one_or_none({r \in table : r.name = name})

\* one recorded repository call
Call(fn, arg) == [fn |-> fn, arg |-> arg]

---------------------------------------------------------------------------
(* Requests *)

\* n copies of the character c
Rep(c, n) == [i \in 1..n |-> c]

\* a name with k blanks before it and k blanks after it
Pad(k, core) == Rep(" ", k) \o core \o Rep(" ", k)

\* the empty name, a name of 2 characters, of 3, of 50 and of 51
NameCores == { <<>>, <<"a","b">>, <<"a","b","c">>,
               Rep("x", max_name_length), Rep("x", max_name_length + 1) }

NameInputs == { Pad(k, c) : k \in 0..MaxPad, c \in NameCores }

\* two addresses that match (one in upper case), one whose last label is
\* too short, and the empty string
EmailInputs == { <<"A","@","b",".","c","o">>,
                 <<"b","@","a",".","i","o">>,
                 <<"a","@","b",".","c">>,
                 <<>> }

---------------------------------------------------------------------------
(* State *)

\* the coroutines of 사용자_생성 that can be in flight at the same time
Tasks == {1, 2}

\* a coroutine that has not been started
IdleTask == [pc |-> "idle", name |-> <<>>, email |-> <<>>, outcome |-> "none"]

Init ==
    /\ tasks = [t \in Tasks |-> IdleTask]
    /\ rows = {}
    /\ next_id = 1
    /\ op = "init"
    /\ arg_id = 0
    /\ arg_name = None
    /\ arg_email = None
    /\ arg_page = 0
    /\ arg_size = 0
    /\ outcome = "ok"
    /\ calls = <<>>
    /\ ret = None
    /\ before = {}

\* the record of a finished service call
Finish(name, result, repo_calls, value) ==
    /\ op' = name
    /\ outcome' = result
    /\ calls' = repo_calls
    /\ ret' = value
    /\ before' = rows
    /\ UNCHANGED tasks

---------------------------------------------------------------------------
(* UserService.사용자_생성 on top of UserRepository.생성 *)

\* UserRepository.생성: session.add, flush (the store assigns the id and
\* the creation time), refresh
repo_create(table, user, id) ==
    [id |-> id, name |-> user.name, email |-> user.email,
     active |-> user.active, created |-> id]

\* the table refuses a second row of the same name
flush_insert_unique_name(table, user, id) ==
    IF \E r \in table : r.name = user.name
    THEN table
    ELSE table \cup {repo_create(table, user, id)}

\* session.add(user); session.flush() in UserRepository.생성: the row is
\* inserted, whatever the table holds
flush_insert(table, user, id) == table \cup {repo_create(table, user, id)}

\* the entity is built from the request as it was sent
new_user_raw(name, email) ==
    [name |-> name, email |-> email, active |-> TRUE]

\* User(이름=dto.이름.strip(), 이메일=dto.이메일.lower(), 활성화=True)
new_user(name, email) ==
    [name |-> Strip(name), email |-> Lower(email), active |-> TRUE]

CreateUser(name, email) ==
    /\ next_id <= MaxId
    /\ arg_id' = 0 /\ arg_name' = Some(name) /\ arg_email' = Some(email)
    /\ arg_page' = 0 /\ arg_size' = 0
    /\ LET lookup == repo_get_by_name(rows, name)
           user   == new_user(name, email)
           saved  == repo_create(rows, user, next_id)
       IN  IF name_length_check(name) # "ok"
           THEN /\ Finish("create", name_length_check(name), <<>>, None)
                /\ UNCHANGED <<rows, next_id>>
           ELSE IF email_format_check(email) # "ok"
           THEN /\ Finish("create", email_format_check(email), <<>>, None)
                /\ UNCHANGED <<rows, next_id>>
           ELSE IF lookup.kind = "multiple_results"
           THEN /\ Finish("create", "multiple_results",
                          <<Call("get_by_name", name)>>, None)
                /\ UNCHANGED <<rows, next_id>>
           ELSE IF lookup.kind = "one"
           THEN /\ Finish("create", "duplicate_name",
                          <<Call("get_by_name", name)>>, None)
                /\ UNCHANGED <<rows, next_id>>
           ELSE /\ Finish("create", "ok",
                          <<Call("get_by_name", name), Call("create", user)>>,
                          Some(saved))
                /\ rows' = flush_insert(rows, user, next_id)
                /\ next_id' = next_id + 1

---------------------------------------------------------------------------
(* UserService.사용자_조회 *)

\* an absent user is let through
get_outcome_no_check(found) ==
    IF found.kind = "multiple_results" THEN "multiple_results" ELSE "ok"

\* the outcome of UserService.사용자_조회 on the result of UserRepository.조회
get_outcome(found) ==
    IF found.kind = "multiple_results" THEN "multiple_results"
    ELSE IF found.kind = "none" THEN "not_found"
    ELSE "ok"

GetUser(user_id) ==
    /\ arg_id' = user_id /\ arg_name' = None /\ arg_email' = None
    /\ arg_page' = 0 /\ arg_size' = 0
    /\ LET found == repo_get(rows, user_id)
       IN  Finish("get", get_outcome(found), <<Call("get", user_id)>>, found.row)
    /\ UNCHANGED <<rows, next_id>>

---------------------------------------------------------------------------
(* UserService.사용자_목록_조회 on top of UserRepository.목록_조회 *)

\* the value of the sort column of a row
SortKey(r, sort_field) ==
    IF sort_field = "id" THEN r.id
    ELSE IF sort_field = "active" THEN (IF r.active THEN 1 ELSE 0)
    ELSE r.created

\* ORDER BY sort_field DESC / ASC
RECURSIVE OrderBy(_, _, _)
OrderBy(S, sort_field, sort_dir) ==
    IF S = {} THEN <<>>
    ELSE LET r == CHOOSE x \in S : \A y \in S :
                    IF sort_dir = "desc"
                    THEN SortKey(y, sort_field) <= SortKey(x, sort_field)
                    ELSE SortKey(x, sort_field) <= SortKey(y, sort_field)
         IN  <<r>> \o OrderBy(S \ {r}, sort_field, sort_dir)

\* OFFSET offset LIMIT limit
OffsetLimit(s, offset, limit) ==
    LET lo == offset + 1
        hi == IF offset + limit < Len(s) THEN offset + limit ELSE Len(s)
    IN  IF lo > hi THEN <<>> ELSE SubSeq(s, lo, hi)

\* offset = (페이지 - 1) * 페이지_크기
list_offset(page, page_size) == (page - 1) * page_size

\* UserRepository.목록_조회: (users, total); active_filter is an Optional
repo_list(table, page, page_size, active_filter, sort_field, sort_dir) ==
    LET matching == IF active_filter # None
                    THEN {r \in table : r.active = active_filter[1]}
                    ELSE table
        total    == Cardinality(matching)
        offset   == list_offset(page, page_size)
    IN  [users |-> OffsetLimit(OrderBy(matching, sort_field, sort_dir),
                               offset, page_size),
         total |-> total]

\* the division rounds down
page_count_floor(total, page_size) == total \div page_size

\* pages of the PaginatedResponse: (total + 페이지_크기 - 1) // 페이지_크기
page_count(total, page_size) == (total + page_size - 1) \div page_size

\* a page size of 101 is let through
list_args_check_size_101(page, page_size) ==
    IF page < 1 THEN "bad_page"
    ELSE IF ~(1 <= page_size /\ page_size <= max_page_size + 1) THEN "bad_page_size"
    ELSE "ok"

\* the input validation of UserService.사용자_목록_조회: "ok", or the
\* ValueError it raises
list_args_check(page, page_size) ==
    IF page < 1 THEN "bad_page"
    ELSE IF ~(1 <= page_size /\ page_size <= max_page_size) THEN "bad_page_size"
    ELSE "ok"

ListUsers(page, page_size) ==
    /\ arg_id' = 0 /\ arg_name' = None /\ arg_email' = None
    /\ arg_page' = page /\ arg_size' = page_size
    /\ LET listed == repo_list(rows, page, page_size, None, "created", "desc")
       IN  IF list_args_check(page, page_size) # "ok"
           THEN Finish("list", list_args_check(page, page_size), <<>>, None)
           ELSE Finish("list", "ok",
                       <<Call("list", <<page, page_size>>)>>,
                       Some([items |-> listed.users,
                             total |-> listed.total,
                             page |-> page,
                             page_size |-> page_size,
                             pages |-> page_count(listed.total, page_size)]))
    /\ UNCHANGED <<rows, next_id>>

---------------------------------------------------------------------------
(* UserService.사용자_수정 on top of UserRepository.수정 *)

\* `if dto.이름:` / `if dto.이메일:` -- None and the empty string are falsy
truthy(field) == field # None /\ field[1] # <<>>

\* the assignment resets the active flag
assign_reactivates(table, user, changed) ==
    (table \ {user}) \cup {[changed EXCEPT !.active = ~user.active]}

\* the table after an attribute assignment on the loaded entity
assign(table, user, changed) == (table \ {user}) \cup {changed}

\* UserRepository.수정: flush, refresh, return the entity
repo_update(table, user) == user

UpdateUser(user_id, name, email) ==
    /\ arg_id' = user_id /\ arg_name' = name /\ arg_email' = email
    /\ arg_page' = 0 /\ arg_size' = 0
    /\ UNCHANGED next_id
    /\ LET found == repo_get(rows, user_id)
       IN  IF get_outcome(found) # "ok"
           THEN /\ Finish("update", get_outcome(found),
                          <<Call("get", user_id)>>, None)
                /\ UNCHANGED rows
           ELSE
           LET user    == found.row[1]
               looks   == truthy(name) /\ name[1] # user.name
               lookup  == repo_get_by_name(rows, name[1])
               calls1  == IF looks
                          THEN <<Call("get", user_id), Call("get_by_name", name[1])>>
                          ELSE <<Call("get", user_id)>>
               user1   == IF truthy(name)
                          THEN [user EXCEPT !.name = Strip(name[1])]
                          ELSE user
               user2   == IF truthy(email)
                          THEN [user1 EXCEPT !.email = Lower(email[1])]
                          ELSE user1
           IN  IF truthy(name) /\ name_length_check(name[1]) # "ok"
               THEN /\ Finish("update", name_length_check(name[1]),
                              <<Call("get", user_id)>>, None)
                    /\ UNCHANGED rows
               ELSE IF looks /\ lookup.kind = "multiple_results"
               THEN /\ Finish("update", "multiple_results", calls1, None)
                    /\ UNCHANGED rows
               ELSE IF looks /\ lookup.kind = "one"
               THEN /\ Finish("update", "duplicate_name", calls1, None)
                    /\ UNCHANGED rows
               ELSE IF truthy(email) /\ email_format_check(email[1]) # "ok"
               THEN /\ Finish("update", email_format_check(email[1]), calls1, None)
                    /\ rows' = assign(rows, user, user1)
               ELSE /\ Finish("update", "ok",
                              Append(calls1, Call("update", user2)),
                              Some(repo_update(rows, user2)))
                    /\ rows' = assign(rows, user, user2)

---------------------------------------------------------------------------
(* UserService.사용자_삭제 on top of UserRepository.삭제 *)

\* UserRepository.삭제: (table afterwards, returned bool)
repo_delete(table, user_id) ==
    LET found == repo_get(table, user_id)
    IN  IF found.kind # "one"
        THEN [table |-> table, deleted |-> FALSE]
        ELSE [table |-> table \ {found.row[1]}, deleted |-> TRUE]

DeleteUser(user_id) ==
    /\ arg_id' = user_id /\ arg_name' = None /\ arg_email' = None
    /\ arg_page' = 0 /\ arg_size' = 0
    /\ UNCHANGED next_id
    /\ LET found == repo_get(rows, user_id)
           gone  == repo_delete(rows, user_id)
       IN  IF get_outcome(found) # "ok"
           THEN /\ Finish("delete", get_outcome(found),
                          <<Call("get", user_id)>>, None)
                /\ UNCHANGED rows
           ELSE /\ Finish("delete", "ok",
                          <<Call("get", user_id), Call("delete", user_id)>>,
                          Some(gone.deleted))
                /\ rows' = gone.table

---------------------------------------------------------------------------
(* Requests of the other operations *)

\* ids asked for: every id the store can hand out
IdInputs == 1..MaxId

PageInputs == 0..MaxPage

PageSizeInputs == {0, 1, 2, 3, max_page_size, max_page_size + 1}

\* an update request supplies each field or leaves it out
OptNameInputs == {None} \cup {Some(n) : n \in NameInputs}

OptEmailInputs == {None} \cup {Some(e) : e \in EmailInputs}

Next ==
    \/ \E name \in NameInputs, email \in EmailInputs : CreateUser(name, email)
    \/ \E user_id \in IdInputs : GetUser(user_id)
    \/ \E page \in PageInputs, page_size \in PageSizeInputs :
         ListUsers(page, page_size)
    \/ \E user_id \in IdInputs, name \in OptNameInputs, email \in OptEmailInputs :
         UpdateUser(user_id, name, email)
    \/ \E user_id \in IdInputs : DeleteUser(user_id)

Spec == Init /\ [][Next]_vars

---------------------------------------------------------------------------
(* Concurrent calls of UserService.사용자_생성.  A coroutine runs without   *)
(* interruption up to an `await` of session I/O: the two validations, then *)
(* the SELECT of 이름으로_조회, then the INSERT of 생성.  `calls` is the     *)
(* order in which the repository calls of all coroutines reached the       *)
(* store.                                                                  *)

\* what the single-call variables hold while coroutines interleave
RaceFrame == UNCHANGED <<op, arg_id, arg_name, arg_email, arg_page, arg_size,
                         outcome, ret, before>>

\* 사용자_생성 lines 97-102: validate, then suspend on the name lookup
RaceBegin(t, name, email) ==
    /\ tasks[t].pc = "idle"
    /\ LET result == IF name_length_check(name) # "ok"
                     THEN name_length_check(name)
                     ELSE email_format_check(email)
       IN  tasks' = [tasks EXCEPT ![t] =
                       [pc |-> IF result = "ok" THEN "lookup" ELSE "done",
                        name |-> name, email |-> email,
                        outcome |-> IF result = "ok" THEN "none" ELSE result]]
    /\ UNCHANGED <<rows, next_id, calls>>
    /\ RaceFrame

\* _이름_중복_검증: the SELECT runs on the table as it is now
RaceLookup(t) ==
    /\ tasks[t].pc = "lookup"
    /\ LET lookup == repo_get_by_name(rows, tasks[t].name)
       IN  tasks' = [tasks EXCEPT
                       ![t].pc = IF lookup.kind = "none" THEN "create" ELSE "done",
                       ![t].outcome = IF lookup.kind = "none" THEN "none"
                                      ELSE IF lookup.kind = "one" THEN "duplicate_name"
                                      ELSE "multiple_results"]
    /\ calls' = Append(calls, Call("get_by_name", tasks[t].name))
    /\ UNCHANGED <<rows, next_id>>
    /\ RaceFrame

\* 사용자_생성 lines 104-112: build the entity, 생성 inserts it
RaceCreate(t) ==
    /\ tasks[t].pc = "create"
    /\ LET user == new_user(tasks[t].name, tasks[t].email)
       IN  /\ rows' = flush_insert(rows, user, next_id)
           /\ calls' = Append(calls, Call("create", user))
    /\ next_id' = next_id + 1
    /\ tasks' = [tasks EXCEPT ![t].pc = "done", ![t].outcome = "ok"]
    /\ RaceFrame

NextRace ==
    \/ \E t \in Tasks, name \in NameInputs, email \in EmailInputs :
         RaceBegin(t, name, email)
    \/ \E t \in Tasks : RaceLookup(t)
    \/ \E t \in Tasks : RaceCreate(t)

SpecRace == Init /\ [][NextRace]_vars

---------------------------------------------------------------------------
(* UserRepository called directly: 생성, 목록_조회 with its filter and sort  *)
(* arguments, 삭제 and 소프트_삭제.                                          *)

\* the rows the filter of 목록_조회 keeps
list_matching(table, active_filter) ==
    IF active_filter # None
    THEN {r \in table : r.active = active_filter[1]}
    ELSE table

\* s is in ORDER BY sort_field order; rows of equal sort value have no
\* order among them
InOrder(s, sort_field, sort_dir) ==
    \A i \in 1..Len(s), j \in 1..Len(s) :
      i < j => IF sort_dir = "desc"
               THEN SortKey(s[i], sort_field) >= SortKey(s[j], sort_field)
               ELSE SortKey(s[i], sort_field) <= SortKey(s[j], sort_field)

\* the orders in which the statement may deliver the rows of S
Orderings(S, sort_field, sort_dir) ==
    {s \in [1..Cardinality(S) -> S] :
       /\ \A i \in 1..Cardinality(S), j \in 1..Cardinality(S) :
            s[i] = s[j] => i = j
       /\ InOrder(s, sort_field, sort_dir)}

\* UserRepository.목록_조회: every (users, total) the call may return
repo_list_results(table, page, page_size, active_filter, sort_field, sort_dir) ==
    LET matching == list_matching(table, active_filter)
    IN  {[users |-> OffsetLimit(ord, list_offset(page, page_size), page_size),
          total |-> Cardinality(matching)] :
           ord \in Orderings(matching, sort_field, sort_dir)}

\* the row is removed instead of being marked
repo_soft_delete_removes(table, user_id) ==
    LET found == repo_get(table, user_id)
    IN  IF found.kind # "one"
        THEN [table |-> table, deleted |-> FALSE]
        ELSE [table |-> table \ {found.row[1]}, deleted |-> TRUE]

\* UserRepository.소프트_삭제: (table afterwards, returned bool)
repo_soft_delete(table, user_id) ==
    LET found == repo_get(table, user_id)
    IN  IF found.kind # "one"
        THEN [table |-> table, deleted |-> FALSE]
        ELSE [table |-> assign(table, found.row[1],
                               [found.row[1] EXCEPT !.active = FALSE]),
              deleted |-> TRUE]

\* the arguments of one call of 목록_조회
ListArgs(page, page_size, active_filter, sort_field, sort_dir) ==
    [page |-> page, page_size |-> page_size, active_filter |-> active_filter,
     sort_field |-> sort_field, sort_dir |-> sort_dir]

\* two calls of 목록_조회 that differ in the page at most
SameScan(a, b) ==
    /\ a.page_size = b.page_size /\ a.active_filter = b.active_filter
    /\ a.sort_field = b.sort_field /\ a.sort_dir = b.sort_dir

NoArgs ==
    /\ arg_id' = 0 /\ arg_name' = None /\ arg_email' = None
    /\ arg_page' = 0 /\ arg_size' = 0

RepoCreate(name, email) ==
    /\ next_id <= MaxId
    /\ NoArgs
    /\ LET user == [name |-> name, email |-> email, active |-> TRUE]
       IN  /\ Finish("repo_create", "ok", <<Call("create", user)>>,
                     <<repo_create(rows, user, next_id)>>)
           /\ rows' = flush_insert(rows, user, next_id)
    /\ next_id' = next_id + 1

\* `calls` and `ret` keep this call and, when the call before it was a
\* 목록_조회 of the same scan on the same table, that call too
RepoList(page, page_size, active_filter, sort_field, sort_dir) ==
    /\ arg_id' = 0 /\ arg_name' = None /\ arg_email' = None
    /\ arg_page' = page /\ arg_size' = page_size
    /\ LET args  == ListArgs(page, page_size, active_filter, sort_field, sort_dir)
           again == /\ op = "repo_list"
                    /\ SameScan(calls[Len(calls)].arg, args)
       IN  \E result \in repo_list_results(rows, page, page_size, active_filter,
                                           sort_field, sort_dir) :
             Finish("repo_list", "ok",
                    IF again THEN <<calls[Len(calls)], Call("list", args)>>
                             ELSE <<Call("list", args)>>,
                    IF again THEN <<ret[Len(ret)], result>>
                             ELSE <<result>>)
    /\ UNCHANGED <<rows, next_id>>

RepoDelete(user_id) ==
    /\ arg_id' = user_id /\ arg_name' = None /\ arg_email' = None
    /\ arg_page' = 0 /\ arg_size' = 0
    /\ LET gone == repo_delete(rows, user_id)
       IN  /\ Finish("repo_delete", "ok", <<Call("delete", user_id)>>,
                     <<gone.deleted>>)
           /\ rows' = gone.table
    /\ UNCHANGED next_id

RepoSoftDelete(user_id) ==
    /\ arg_id' = user_id /\ arg_name' = None /\ arg_email' = None
    /\ arg_page' = 0 /\ arg_size' = 0
    /\ LET gone == repo_soft_delete(rows, user_id)
       IN  /\ Finish("repo_soft_delete", "ok", <<Call("soft_delete", user_id)>>,
                     <<gone.deleted>>)
           /\ rows' = gone.table
    /\ UNCHANGED next_id

\* names and the address of the entities handed to 생성
RepoNameInputs == {n \in NameCores : name_length_check(n) = "ok"}

RepoEmailInputs == { <<"b","@","a",".","i","o">> }

RepoPageInputs == 1..MaxPage

RepoPageSizeInputs == {1, 2}

FilterInputs == {None, Some(TRUE), Some(FALSE)}

SortFieldInputs == {"created", "active"}

SortDirInputs == {"asc", "desc"}

NextRepo ==
    \/ \E name \in RepoNameInputs, email \in RepoEmailInputs :
         RepoCreate(name, email)
    \/ \E page \in RepoPageInputs, page_size \in RepoPageSizeInputs,
          active_filter \in FilterInputs, sort_field \in SortFieldInputs,
          sort_dir \in SortDirInputs :
         RepoList(page, page_size, active_filter, sort_field, sort_dir)
    \/ \E user_id \in IdInputs : RepoDelete(user_id)
    \/ \E user_id \in IdInputs : RepoSoftDelete(user_id)

SpecRepo == Init /\ [][NextRepo]_vars

---------------------------------------------------------------------------
(* Vocabulary of the properties.  `before` is the table when the last      *)
(* service call started, `rows` the table when it returned or raised.      *)

Ids(table) == {r.id : r \in table}

Names(table) == {r.name : r \in table}

\* the trimmed length of a name is within the 3..50 of the data model
TrimmedLengthOk(name) ==
    LET n == Len(Strip(name))
    IN  min_name_length <= n /\ n <= max_name_length

\* the last service call invoked the repository method fn
Called(fn) == \E i \in 1..Len(calls) : calls[i].fn = fn

ValidationErrors == {"name_too_short", "name_too_long", "bad_email"}

---------------------------------------------------------------------------
(* C1 -- name uniqueness: after any sequence of service calls (create,     *)
(* update, delete) from the empty store, no two stored records have the    *)
(* same name.                                                              *)
NamesUnique ==
    \A r1 \in rows, r2 \in rows : r1.name = r2.name => r1 = r2

(* C2 -- create of an otherwise valid request fails with the duplicate-    *)
(* name error, without calling the repository's create, whenever the       *)
(* trimmed name is the name of a stored record; it succeeds when the       *)
(* trimmed name differs from every stored name.                            *)
CreateRejectsDuplicateName ==
    (op = "create" /\ TrimmedLengthOk(arg_name[1])
                   /\ email_pattern_match(arg_email[1]))
    => IF Strip(arg_name[1]) \in Names(before)
       THEN outcome = "duplicate_name" /\ ~Called("create") /\ rows = before
       ELSE outcome = "ok"

(* C3 -- a create whose name has a trimmed length in 3..50, whose e-mail   *)
(* matches the pattern and whose name is not in use succeeds; the record   *)
(* handed to the repository and the record returned carry the trimmed      *)
(* name, the lower-cased e-mail and active = TRUE.                         *)
CreateNormalizes ==
    (op = "create" /\ TrimmedLengthOk(arg_name[1])
                   /\ email_pattern_match(arg_email[1])
                   /\ Strip(arg_name[1]) \notin Names(before))
    => /\ outcome = "ok"
       /\ Called("create")
       /\ LET handed == calls[Len(calls)].arg
          IN  /\ calls[Len(calls)].fn = "create"
              /\ handed.name = Strip(arg_name[1])
              /\ handed.email = Lower(arg_email[1])
              /\ handed.active = TRUE
       /\ ret # None
       /\ ret[1].name = Strip(arg_name[1])
       /\ ret[1].email = Lower(arg_email[1])
       /\ ret[1].active = TRUE
       /\ ret[1] \in rows

\* a create that had blanks to trim and capitals to lower succeeded
CreateNormalizesWitness ==
    /\ op = "create" /\ outcome = "ok"
    /\ arg_name[1] # Strip(arg_name[1])
    /\ arg_email[1] # Lower(arg_email[1])
    /\ Len(Strip(arg_name[1])) = max_name_length

(* C4 -- validation precedes every repository call in create: when the     *)
(* trimmed length of the name is outside 3..50 or the e-mail does not      *)
(* match the pattern, create raises a validation error, neither the name   *)
(* lookup nor the repository's create is invoked, and the store is left    *)
(* as it was.                                                              *)
CreateValidatesFirst ==
    (op = "create" /\ (~TrimmedLengthOk(arg_name[1])
                       \/ ~email_pattern_match(arg_email[1])))
    => /\ outcome \in ValidationErrors
       /\ calls = <<>>
       /\ rows = before

\* a create of a 51-character name was turned down on a non-empty store
CreateValidatesFirstWitness ==
    /\ op = "create" /\ outcome = "name_too_long"
    /\ Len(Strip(arg_name[1])) = max_name_length + 1
    /\ calls = <<>>
    /\ before # {}

(* C5 -- an update of record A to a name that is the name of a different   *)
(* stored record B fails with the duplicate-name error and the             *)
(* repository's update is not invoked; an update of A to A's own current   *)
(* name succeeds and does not consult the name lookup.                     *)
UpdateChecksOtherNames ==
    (op = "update" /\ arg_id \in Ids(before) /\ arg_name # None)
    => LET a == CHOOSE r \in before : r.id = arg_id
       IN  /\ (\E b \in before : b.id # a.id /\ b.name = Strip(arg_name[1]))
                => (outcome = "duplicate_name" /\ ~Called("update"))
           /\ (arg_name[1] = a.name
               /\ (arg_email = None \/ email_pattern_match(arg_email[1])))
                => (outcome = "ok" /\ ~Called("get_by_name"))

(* C6 -- get-by-id of an id that is not in the store raises not-found;     *)
(* delete of an id that is not in the store raises the same error, never   *)
(* invokes the repository's delete and leaves the store as it was.         *)
AbsentIdNotFound ==
    /\ (op = "get" /\ arg_id \notin Ids(before))
         => (outcome = "not_found" /\ ret = None)
    /\ (op = "delete" /\ arg_id \notin Ids(before))
         => (outcome = "not_found" /\ ~Called("delete") /\ rows = before)

\* a delete of an absent id was turned down while other records exist
AbsentIdNotFoundWitness ==
    /\ op = "delete" /\ outcome = "not_found"
    /\ arg_id \notin Ids(before)
    /\ before # {}

(* C7 -- list with page < 1, page_size < 1 or page_size > 100 raises a     *)
(* validation error without invoking the repository's list.                *)
ListValidatesFirst ==
    (op = "list" /\ (arg_page < 1 \/ arg_size < 1 \/ arg_size > max_page_size))
    => /\ outcome \in {"bad_page", "bad_page_size"}
       /\ calls = <<>>
       /\ ret = None

\* a page size of 101 was turned down on a page that is acceptable
ListValidatesFirstWitness ==
    /\ op = "list" /\ outcome = "bad_page_size"
    /\ arg_page = 1 /\ arg_size = max_page_size + 1
    /\ calls = <<>>

(* C8 -- the envelope of a successful list has pages = ceil(total /        *)
(* page_size): 0 when total = 0, otherwise pages * page_size >= total >    *)
(* (pages - 1) * page_size; total is the count the repository returned,    *)
(* page and page_size are the ones requested.                              *)
PagesIsCeiling ==
    (op = "list" /\ outcome = "ok")
    => LET e == ret[1]
       IN  /\ e.total = repo_list(before, arg_page, arg_size,
                                  None, "created", "desc").total
           /\ e.total = Cardinality(before)
           /\ e.page = arg_page
           /\ e.page_size = arg_size
           /\ IF e.total = 0 THEN e.pages = 0
              ELSE /\ e.pages * e.page_size >= e.total
                   /\ e.total > (e.pages - 1) * e.page_size

\* a list whose total is not a multiple of the page size
PagesIsCeilingWitness ==
    /\ op = "list" /\ outcome = "ok"
    /\ ret[1].total > 0
    /\ ret[1].total % ret[1].page_size # 0
    /\ ret[1].pages = 1

(* C9 -- all-or-nothing update: whenever update raises an error, the       *)
(* target record has exactly the name and e-mail it had before the call.   *)
UpdateAllOrNothing ==
    (op = "update" /\ outcome # "ok")
    => \A r \in before : r.id = arg_id =>
         \E q \in rows : q.id = r.id /\ q.name = r.name /\ q.email = r.email

(* C10 -- update re-validates every supplied field: a supplied name        *)
(* (the empty string included) whose trimmed length is outside 3..50, or   *)
(* a supplied e-mail that does not match the pattern, makes update raise   *)
(* an error, and the repository's update is not invoked.                   *)
UpdateRevalidatesSupplied ==
    (op = "update" /\ arg_id \in Ids(before)
       /\ (\/ (arg_name # None /\ ~TrimmedLengthOk(arg_name[1]))
           \/ (arg_email # None /\ ~email_pattern_match(arg_email[1]))))
    => (outcome # "ok" /\ ~Called("update"))

(* C11 -- check-then-act without a guard: when two concurrent creates of   *)
(* the same valid name both run their name lookup before either runs the   *)
(* repository's create, both pass the check and both succeed, and the      *)
(* store holds two records of the same name.                               *)
RaceBothCreatesSucceed ==
    (/\ \A t \in Tasks : tasks[t].pc = "done"
     /\ tasks[1].name = tasks[2].name
     /\ Len(calls) >= 2
     /\ calls[1].fn = "get_by_name"
     /\ calls[2].fn = "get_by_name")
    => /\ \A t \in Tasks : tasks[t].outcome = "ok"
       /\ \E r1 \in rows, r2 \in rows : r1 # r2 /\ r1.name = r2.name

\* both creates of one padded name finished after the two lookups came first
RaceBothCreatesSucceedWitness ==
    /\ \A t \in Tasks : tasks[t].pc = "done" /\ tasks[t].outcome = "ok"
    /\ tasks[1].name = tasks[2].name
    /\ tasks[1].name # Strip(tasks[1].name)
    /\ Len(calls) = 4
    /\ calls[1].fn = "get_by_name" /\ calls[2].fn = "get_by_name"
    /\ Cardinality(rows) = 2

(* C12 -- in every reachable store state the repository reads return the  *)
(* matching record(s) or an empty/absent result and never raise; in        *)
(* particular get-by-id and get-by-name return a record or None for every  *)
(* id and every name.                                                      *)
RepoReadsNeverRaise ==
    /\ \A user_id \in 1..(MaxId + 1) :
         repo_get(rows, user_id).kind \in {"none", "one"}
    /\ \A name \in NameInputs \cup Names(rows) :
         repo_get_by_name(rows, name).kind \in {"none", "one"}

---------------------------------------------------------------------------
(* Vocabulary of the properties of 목록_조회.  In SpecRepo `calls[k].arg`   *)
(* are the arguments and `ret[k]` the result of the k-th logged call.      *)

\* the elements at positions (p-1)*s .. p*s-1 (counted from 0) of ord
PageSlice(ord, p, s) ==
    LET rest == Len(ord) - (p - 1) * s
        n    == IF rest < 0 THEN 0 ELSE IF rest < s THEN rest ELSE s
    IN  [i \in 1..n |-> ord[(p - 1) * s + i]]

Range(seq) == {seq[i] : i \in 1..Len(seq)}

\* the k-th logged call returned the count of the matching records and the
\* page slice of those records in sort order
ListCallOk(k) ==
    LET a        == calls[k].arg
        matching == list_matching(rows, a.active_filter)
        offset   == (a.page - 1) * a.page_size
    IN  /\ ret[k].total = Cardinality(matching)
        /\ \E ord \in Orderings(matching, a.sort_field, a.sort_dir) :
             ret[k].users = PageSlice(ord, a.page, a.page_size)
        /\ Range(ret[k].users) \subseteq matching
        /\ Len(ret[k].users) <= a.page_size
        /\ (offset >= ret[k].total => ret[k].users = <<>>)
        /\ (offset < ret[k].total => ret[k].users # <<>>)

\* two different pages of one scan were read
TwoPages ==
    /\ op = "repo_list" /\ Len(calls) = 2
    /\ calls[1].arg.page # calls[2].arg.page

\* the two pages share no record and, when they are all the pages there
\* are, leave no record out
PagesPartition ==
    LET a        == calls[2].arg
        matching == list_matching(rows, a.active_filter)
    IN  /\ Range(ret[1].users) \cap Range(ret[2].users) = {}
        /\ ({calls[1].arg.page, calls[2].arg.page} = {1, 2}
            /\ Cardinality(matching) <= 2 * a.page_size)
             => Range(ret[1].users) \cup Range(ret[2].users) = matching

(* C13 -- repository list with page p >= 1, size s >= 1 and filter f       *)
(* returns (items, total): total is the number of records matching f,      *)
(* items are the elements at positions (p-1)*s .. p*s-1 of the matching    *)
(* records in sort order, so len(items) <= s and items is empty when       *)
(* (p-1)*s >= total; the pages of one scan partition the matching records, *)
(* no record repeated or omitted.                                          *)
RepoListPagesPartition ==
    (op = "repo_list")
    => /\ \A k \in 1..Len(calls) : ListCallOk(k)
       /\ TwoPages => PagesPartition

(* C14 -- soft delete of an existing id sets that record's active flag to  *)
(* FALSE, keeps its id, name, e-mail and creation time and every other     *)
(* record, and returns TRUE, so the name is still found by the name        *)
(* lookup; hard delete of an existing id removes exactly that row and      *)
(* returns TRUE; for an absent id both return FALSE and change nothing.    *)
DeleteFrames ==
    /\ (op = "repo_soft_delete") =>
         IF arg_id \in Ids(before)
         THEN /\ ret = <<TRUE>>
              /\ Cardinality(rows) = Cardinality(before)
              /\ \A r \in before :
                   IF r.id = arg_id
                   THEN /\ [r EXCEPT !.active = FALSE] \in rows
                        /\ repo_get_by_name(rows, r.name).kind # "none"
                   ELSE r \in rows
         ELSE ret = <<FALSE>> /\ rows = before
    /\ (op = "repo_delete") =>
         IF arg_id \in Ids(before)
         THEN /\ ret = <<TRUE>>
              /\ rows = {r \in before : r.id # arg_id}
              /\ Cardinality(rows) = Cardinality(before) - 1
         ELSE ret = <<FALSE>> /\ rows = before

\* an active record was soft-deleted next to another record
DeleteFramesWitness ==
    /\ op = "repo_soft_delete" /\ ret = <<TRUE>>
    /\ Cardinality(before) = 2
    /\ \E r \in before : r.id = arg_id /\ r.active
    /\ \E r \in rows : r.id = arg_id /\ ~r.active

(* C15 -- service update changes only the name and/or e-mail of the        *)
(* record with the given id: its id, active flag and creation time stay,   *)
(* a field absent from the request keeps its value, and no other record    *)
(* is modified, added or removed.                                          *)
UpdateFrame ==
    (op = "update")
    => /\ Ids(rows) = Ids(before)
       /\ Cardinality(rows) = Cardinality(before)
       /\ \A r \in before :
            IF r.id # arg_id THEN r \in rows
            ELSE \E q \in rows :
                   /\ q.id = r.id /\ q.active = r.active /\ q.created = r.created
                   /\ (arg_name = None => q.name = r.name)
                   /\ (arg_email = None => q.email = r.email)

\* an update that supplied only an e-mail changed it next to another record
UpdateFrameWitness ==
    /\ op = "update" /\ outcome = "ok"
    /\ arg_name = None /\ arg_email # None
    /\ Cardinality(before) = 2
    /\ rows # before

====
